---- MODULE Spec2Model ----
(***************************************************************************)
(* The battle engine of the tournament package (battle_utils.py):          *)
(* simulate_tournament_battle copies the caller's balls into BattleBalls,  *)
(* drives the generator gen_battle to exhaustion and returns winner, turns *)
(* and the log.  Every yield of the generator is a step of the model.      *)
(***************************************************************************)
EXTENDS Integers, Sequences, FiniteSets

VARIABLES
    player1_balls,   \* the caller's balls of player 1: <<[country, health, attack], ...>>
    player2_balls,   \* the caller's balls of player 2
    player1_name,    \* owner label of side 1 (a display name; "A" throughout)
    player2_name,    \* owner label of side 2 ("B" throughout)
    p1_balls,        \* BattleInstance.p1_balls: <<[name, owner, health, attack, dead], ...>>
    p2_balls,        \* BattleInstance.p2_balls
    winner,          \* BattleInstance.winner
    turns,           \* BattleInstance.turns
    turn,            \* gen_battle's local turn counter
    alive_p1_balls,  \* the round's snapshot of side 1: indices into p1_balls, in roster order
    alive_p2_balls,  \* the round's snapshot of side 2
    k,               \* position of the current pair in zip(alive_p1_balls, alive_p2_balls)
    pc,              \* where the call stands
    battle_log,      \* the lines gen_battle has yielded so far
    result,          \* what simulate_tournament_battle returned
    roll,            \* a call of get_damage on its own: [ball, u, damage, done]
    active_tournaments,  \* cog.active_tournaments of one guild: 0 (no entry)
                         \* or the position in tournaments of the one stored
    tournaments,     \* the Tournament objects made so far: <<[state, players, participants], ...>>
    tasks,           \* the handlers suspended at an await, one per slot
    calls            \* the state writes and Challonge calls of a match, in order

vars == <<player1_balls, player2_balls, player1_name, player2_name, p1_balls,
          p2_balls, winner, turns, turn, alive_p1_balls, alive_p2_balls, k,
          pc, battle_log, result, roll, active_tournaments, tournaments,
          tasks, calls>>

\* the variables of the tournament
tournament_vars == <<active_tournaments, tournaments, tasks, calls>>

\* the variables of the battle but pc
battle_frame == <<player1_balls, player2_balls, player1_name, player2_name,
                  p1_balls, p2_balls, winner, turns, turn, alive_p1_balls,
                  alive_p2_balls, k, battle_log, result, roll>>

\* the variables of the battle
battle_vars == <<player1_balls, player2_balls, player1_name, player2_name,
                 p1_balls, p2_balls, winner, turns, turn, alive_p1_balls,
                 alive_p2_balls, k, pc, battle_log, result, roll>>

----------------------------------------------------------------------------
(* Bounds of the model. *)

\* The rosters drawn at the start hold at most this much health in total
\* (so at most this many balls), and no hit is followed beyond this health.
MaxTotalHealth == 4

\* Attack and miss events followed in one battle.
MaxTurn == 4

\* Balls per side of the rosters that may break the preconditions.
MaxAnyBalls == 2

\* get_damage on its own is called with attack values -MaxAttack..MaxAttack.
MaxAttack == 5

\* Users who click the buttons of a registration view.
MaxUsers == 2

\* max_participants of a tournament.
MaxParticipants == 2

\* balls_per_player of a tournament.
BallsPerPlayer == 1

\* TournamentPlayer objects made for one tournament.
MaxJoins == 2

\* Handlers suspended at an await at the same time.
MaxTasks == 2

\* Tournament objects made for the guild.
MaxTournaments == 3

\* Balls per side in the battles followed without end.
MaxLiveBalls == 2

\* Attack and miss events followed in a battle of four balls of health 1.
MaxTurnFourBalls == 5

\* The attack values the rosters are drawn from.
Attacks == {-1, 0, 1}

----------------------------------------------------------------------------
(* The random source. *)

\* random.uniform(0.8, 1.2), in hundredths
UMin == 80
UMax == 120
Multipliers == UMin..UMax

\* random.randint(0, 100) and the miss threshold
RollMax == 100
MissMax == 30
Rolls == 0..RollMax

\* int(): truncation towards zero of n / d
Trunc(n, d) == IF n >= 0 THEN n \div d ELSE -((-n) \div d)

\* get_damage with math.floor in place of int
get_damage_floor(ball, u) == (ball.attack * u) \div 100

\* int(ball.attack * random.uniform(0.8, 1.2)), the uniform value being u / 100
get_damage(ball, u) == Trunc(ball.attack * u, 100)

\* 1 is a miss, 0 is not
random_events(r) == IF r <= MissMax THEN 1 ELSE 0

\* the values random_events() can return
Events == {random_events(r) : r \in Rolls}

----------------------------------------------------------------------------
(* Data. *)

BattleBall(ball, owner_name) ==
    [name |-> ball.country, owner |-> owner_name, health |-> ball.health,
     attack |-> ball.attack, dead |-> FALSE]

\* Alive in reversed roster order
AliveReversed(balls) ==
    LET n == Len(SelectSeq([i \in 1..Len(balls) |-> i],
                           LAMBDA i : ~balls[i].dead))
        up == SelectSeq([i \in 1..Len(balls) |-> i],
                        LAMBDA i : ~balls[i].dead)
    IN  [i \in 1..n |-> up[n + 1 - i]]

\* Alive without its filter: list(balls)
AliveUnfiltered(balls) == [i \in 1..Len(balls) |-> i]

\* [ball for ball in balls if not ball.dead], as indices in roster order
Alive(balls) ==
    SelectSeq([i \in 1..Len(balls) |-> i], LAMBDA i : ~balls[i].dead)

AllDead(balls) == \A i \in 1..Len(balls) : balls[i].dead

AnyAlive(balls) == \E i \in 1..Len(balls) : ~balls[i].dead

\* the stalemate check with < in place of <=
NoDamageStrict(balls1, balls2) ==
    \A i \in 1..Len(balls1 \o balls2) : (balls1 \o balls2)[i].attack < 0

\* all(ball.attack <= 0 for ball in battle.p1_balls + battle.p2_balls)
NoDamage(balls1, balls2) ==
    \A i \in 1..Len(balls1 \o balls2) : (balls1 \o balls2)[i].attack <= 0

Min(a, b) == IF a <= b THEN a ELSE b

\* the number of pairs zip() yields
ZipLen == Min(Len(alive_p1_balls), Len(alive_p2_balls))

NoResult == [winner |-> "?", turns |-> -1, battle_log |-> <<>>]

----------------------------------------------------------------------------
(* Log lines.  A line is modelled by its "Turn t: " prefix and the event it  *)
(* reports (and the damage, where the text states it); the owner and ball  *)
(* names the text interpolates are left out.                               *)

\* "Everyone stared at each other, resulting in nobody winning."
StaredLine == [turn |-> 0, kind |-> "stared", dmg |-> 0]

\* "Turn t: X's A missed Y's B"
MissLine(t) == [turn |-> t, kind |-> "missed", dmg |-> 0]

\* the text attack() returns, under the "Turn t: " prefix
AttackLine(t, enemy, attack_dealt) ==
    IF enemy.dead
    THEN [turn |-> t, kind |-> "killed", dmg |-> 0]
    ELSE [turn |-> t, kind |-> "dealt", dmg |-> attack_dealt]

----------------------------------------------------------------------------
(* attack(current_ball, enemy_balls) *)

\* Hurt that clamps the health and forgets the dead flag
HurtNoFlag(enemy, attack_dealt) ==
    LET h == enemy.health - attack_dealt
    IN  IF h <= 0
        THEN [enemy EXCEPT !.health = 0]
        ELSE [enemy EXCEPT !.health = h]

\* enemy.health -= attack_dealt, then the clamp at 0 with the dead flag
Hurt(enemy, attack_dealt) ==
    LET h == enemy.health - attack_dealt
    IN  IF h <= 0
        THEN [enemy EXCEPT !.health = 0, !.dead = TRUE]
        ELSE [enemy EXCEPT !.health = h]

\* Attacked hurting every living ball of enemy_balls
AttackedAll(enemy_balls, e, attack_dealt) ==
    [i \in 1..Len(enemy_balls) |->
        IF enemy_balls[i].dead THEN enemy_balls[i]
        ELSE Hurt(enemy_balls[i], attack_dealt)]

\* enemy_balls after the attack on its member e
Attacked(enemy_balls, e, attack_dealt) ==
    [enemy_balls EXCEPT ![e] = Hurt(@, attack_dealt)]

\* Targets with alive_balls[0] in place of random.choice(alive_balls)
TargetsFirst(enemy_balls) ==
    {i \in 1..Len(enemy_balls) :
        /\ ~enemy_balls[i].dead
        /\ \A j \in 1..(i - 1) : enemy_balls[j].dead}

\* the targets random.choice(alive_balls) draws from
Targets(enemy_balls) == {i \in 1..Len(enemy_balls) : ~enemy_balls[i].dead}

\* the damage values get_damage(ball) can return
Damages(ball) == {get_damage(ball, u) : u \in Multipliers}

----------------------------------------------------------------------------
(* Initial states. *)

RECURSIVE TotalHealth(_)
TotalHealth(balls) ==
    IF balls = <<>> THEN 0 ELSE Head(balls).health + TotalHealth(Tail(balls))

\* rosters of n balls, health in healths, attack in attacks; a ball's country
\* is its position
RostersOf(n, healths, attacks) ==
    {[i \in 1..n |-> [country |-> i, health |-> f[i][1], attack |-> f[i][2]]] :
        f \in [1..n -> healths \X attacks]}

\* rosters that meet the preconditions: non-empty, every health > 0
ValidRosters ==
    UNION {{r \in RostersOf(n, 1..(MaxTotalHealth - n), Attacks) :
                TotalHealth(r) <= MaxTotalHealth - 1} :
           n \in 1..(MaxTotalHealth - 1)}

\* no call of get_damage on its own
NoRoll == [ball |-> [attack |-> 0], u |-> UMin, damage |-> 0, done |-> FALSE]

\* no battle yet, the caller holding two of the rosters
NoBattle(rosters) ==
    /\ player1_balls \in rosters
    /\ player2_balls \in rosters
    /\ TotalHealth(player1_balls) + TotalHealth(player2_balls)
         <= MaxTotalHealth
    /\ player1_name = "A"
    /\ player2_name = "B"
    /\ p1_balls = <<>>
    /\ p2_balls = <<>>
    /\ winner = ""
    /\ turns = 0
    /\ turn = 0
    /\ alive_p1_balls = <<>>
    /\ alive_p2_balls = <<>>
    /\ k = 0
    /\ pc = "idle"
    /\ battle_log = <<>>
    /\ result = NoResult

\* no handler suspended in the slot
NoTask == [kind |-> "none", t |-> 0, user |-> 0, i |-> 0, cur |-> 0,
           failed |-> <<>>]

\* no tournament in the guild, no handler under way
NoTournament ==
    /\ active_tournaments = 0
    /\ tournaments = <<>>
    /\ tasks = [s \in 1..MaxTasks |-> NoTask]
    /\ calls = <<>>

InitWith(rosters) == NoBattle(rosters) /\ roll = NoRoll /\ NoTournament

Init == InitWith(ValidRosters)

\* rosters that may break the preconditions: empty, or with balls of health 0
AnyRosters == UNION {RostersOf(n, 0..1, Attacks) : n \in 0..MaxAnyBalls}

InitAny == InitWith(AnyRosters)

\* small valid rosters without negative attack
LiveRosters == UNION {RostersOf(n, {1}, {0, 1}) : n \in 1..MaxLiveBalls}

InitLive == InitWith(LiveRosters)

\* rosters of one to three balls of health 1
UnitRosters == UNION {RostersOf(n, {1}, Attacks) : n \in 1..3}

\* four balls of health 1 in all: 3 against 1, 2 against 2, 1 against 3
InitFourBalls ==
    /\ InitWith(UnitRosters)
    /\ Len(player1_balls) + Len(player2_balls) = 4

----------------------------------------------------------------------------
(* simulate_tournament_battle, up to the first step of the generator. *)

\* Simulate with the BattleBalls built once and kept for the later calls
SimulateKeepsBalls ==
    /\ pc \in {"idle", "returned"}
    /\ p1_balls' = IF pc = "returned" THEN p1_balls
                   ELSE [i \in 1..Len(player1_balls) |->
                            BattleBall(player1_balls[i], player1_name)]
    /\ p2_balls' = IF pc = "returned" THEN p2_balls
                   ELSE [i \in 1..Len(player2_balls) |->
                            BattleBall(player2_balls[i], player2_name)]
    /\ winner' = ""
    /\ turns' = 0
    /\ turn' = 0
    /\ alive_p1_balls' = <<>>
    /\ alive_p2_balls' = <<>>
    /\ k' = 0
    /\ battle_log' = <<>>
    /\ result' = NoResult
    /\ pc' = "entry"
    /\ UNCHANGED <<tournament_vars, roll, player1_balls, player2_balls, player1_name, player2_name>>

Simulate ==
    /\ pc \in {"idle", "returned"}
    /\ p1_balls' = [i \in 1..Len(player1_balls) |->
                        BattleBall(player1_balls[i], player1_name)]
    /\ p2_balls' = [i \in 1..Len(player2_balls) |->
                        BattleBall(player2_balls[i], player2_name)]
    /\ winner' = ""
    /\ turns' = 0
    /\ turn' = 0
    /\ alive_p1_balls' = <<>>
    /\ alive_p2_balls' = <<>>
    /\ k' = 0
    /\ battle_log' = <<>>
    /\ result' = NoResult
    /\ pc' = "entry"
    /\ UNCHANGED <<tournament_vars, roll, player1_balls, player2_balls, player1_name, player2_name>>

----------------------------------------------------------------------------
(* gen_battle *)

\* the check that all balls do no damage: one line, then return
Stalemate ==
    /\ pc = "entry"
    /\ NoDamage(p1_balls, p2_balls)
    /\ battle_log' = Append(battle_log, StaredLine)
    /\ pc' = "exhausted"
    /\ UNCHANGED <<tournament_vars, roll, player1_balls, player2_balls, player1_name, player2_name,
                   p1_balls, p2_balls, winner, turns, turn, alive_p1_balls,
                   alive_p2_balls, k, result>>

EnterLoop ==
    /\ pc = "entry"
    /\ ~NoDamage(p1_balls, p2_balls)
    /\ pc' = "while"
    /\ UNCHANGED <<tournament_vars, roll, player1_balls, player2_balls, player1_name, player2_name,
                   p1_balls, p2_balls, winner, turns, turn, alive_p1_balls,
                   alive_p2_balls, k, battle_log, result>>

\* RoundStart with battle.turns = turn written at the start of every round
RoundStartSetsTurns ==
    /\ pc = "while"
    /\ AnyAlive(p1_balls) /\ AnyAlive(p2_balls)
    /\ alive_p1_balls' = Alive(p1_balls)
    /\ alive_p2_balls' = Alive(p2_balls)
    /\ k' = 1
    /\ turns' = turn
    /\ pc' = "p1"
    /\ UNCHANGED <<tournament_vars, roll, player1_balls, player2_balls, player1_name, player2_name,
                   p1_balls, p2_balls, winner, turn, battle_log, result>>

\* the while condition holds: snapshot the living balls, start the for loop
RoundStart ==
    /\ pc = "while"
    /\ AnyAlive(p1_balls) /\ AnyAlive(p2_balls)
    /\ alive_p1_balls' = Alive(p1_balls)
    /\ alive_p2_balls' = Alive(p2_balls)
    /\ k' = 1
    /\ pc' = "p1"
    /\ UNCHANGED <<tournament_vars, roll, player1_balls, player2_balls, player1_name, player2_name,
                   p1_balls, p2_balls, winner, turns, turn, battle_log, result>>

\* Winner naming the dead side's owner
WinnerSwapped(balls1, balls2, old) ==
    IF AllDead(balls1) THEN balls1[1].owner
    ELSE IF AllDead(balls2) THEN balls2[1].owner
    ELSE old

\* Winner without its elif branch
WinnerNoElif(balls1, balls2, old) ==
    IF AllDead(balls1) THEN balls2[1].owner ELSE old

\* "Determine the winner"
Winner(balls1, balls2, old) ==
    IF AllDead(balls1) THEN balls2[1].owner
    ELSE IF AllDead(balls2) THEN balls1[1].owner
    ELSE old

\* the while condition fails: determine the winner, set turns
LoopExit ==
    /\ pc = "while"
    /\ ~(AnyAlive(p1_balls) /\ AnyAlive(p2_balls))
    /\ winner' = Winner(p1_balls, p2_balls, winner)
    /\ turns' = turn
    /\ pc' = "exhausted"
    /\ UNCHANGED <<tournament_vars, roll, player1_balls, player2_balls, player1_name, player2_name,
                   p1_balls, p2_balls, turn, alive_p1_balls, alive_p2_balls,
                   k, battle_log, result>>

\* the pair the for loop stands at
p1_ball == p1_balls[alive_p1_balls[k]]
p2_ball == p2_balls[alive_p2_balls[k]]

\* the for loop takes its next pair, or ends the round
NextPair ==
    IF k < ZipLen THEN k' = k + 1 /\ pc' = "p1" ELSE k' = k /\ pc' = "while"

\* continue
Continue == NextPair

\* no break: control falls through to player 2's block
BreakFallsThrough == k' = k /\ pc' = "p2"

\* break
Break == k' = k /\ pc' = "while"

\* turn += 1; with sat the counter stays at MaxTurn once it is there
TurnAfter(sat) == IF sat /\ turn >= MaxTurn THEN turn ELSE turn + 1

\* yield line; with sat the log stops growing at MaxTurn lines
LogAfter(sat, line) ==
    IF sat /\ Len(battle_log) >= MaxTurn THEN battle_log
    ELSE Append(battle_log, line)

\* P1Skip without the dead check: the dead ball makes a (missed) attempt
P1SkipAttempts ==
    /\ pc = "p1"
    /\ p1_ball.dead
    /\ turn' = turn + 1
    /\ battle_log' = Append(battle_log, MissLine(turn'))
    /\ Continue
    /\ UNCHANGED <<tournament_vars, roll, player1_balls, player2_balls, player1_name, player2_name,
                   p1_balls, p2_balls, winner, turns, alive_p1_balls,
                   alive_p2_balls, result>>

\* "if not p1_ball.dead" fails
P1Skip ==
    /\ pc = "p1"
    /\ p1_ball.dead
    /\ pc' = "p2"
    /\ UNCHANGED <<tournament_vars, roll, player1_balls, player2_balls, player1_name, player2_name,
                   p1_balls, p2_balls, winner, turns, turn, alive_p1_balls,
                   alive_p2_balls, k, battle_log, result>>

\* P1MissOp with the miss rolled before the turn is counted
P1MissNoCount(sat) ==
    /\ pc = "p1"
    /\ ~p1_ball.dead
    /\ 1 \in Events
    /\ turn' = turn
    /\ battle_log' = LogAfter(sat, MissLine(turn'))
    /\ Continue
    /\ UNCHANGED <<tournament_vars, roll, player1_balls, player2_balls, player1_name, player2_name,
                   p1_balls, p2_balls, winner, turns, alive_p1_balls,
                   alive_p2_balls, result>>

\* player 1's ball misses
P1MissOp(sat) ==
    /\ pc = "p1"
    /\ ~p1_ball.dead
    /\ 1 \in Events
    /\ turn' = TurnAfter(sat)
    /\ battle_log' = LogAfter(sat, MissLine(turn'))
    /\ Continue
    /\ UNCHANGED <<tournament_vars, roll, player1_balls, player2_balls, player1_name, player2_name,
                   p1_balls, p2_balls, winner, turns, alive_p1_balls,
                   alive_p2_balls, result>>

\* player 1's ball attacks enemy e of side 2 for attack_dealt
P1HitOp(sat, e, attack_dealt) ==
    /\ pc = "p1"
    /\ ~p1_ball.dead
    /\ 0 \in Events
    /\ turn' = TurnAfter(sat)
    /\ IF Targets(p2_balls) = {}
       THEN /\ pc' = "raised"
            /\ UNCHANGED <<p2_balls, battle_log, k>>
       ELSE /\ e \in Targets(p2_balls)
            /\ attack_dealt \in Damages(p1_ball)
            /\ p2_balls' = Attacked(p2_balls, e, attack_dealt)
            /\ p2_balls'[e].health <= MaxTotalHealth
            /\ battle_log' = LogAfter(sat,
                   AttackLine(turn', p2_balls'[e], attack_dealt))
            /\ IF AllDead(p2_balls') THEN Break ELSE k' = k /\ pc' = "p2"
    /\ UNCHANGED <<tournament_vars, roll, player1_balls, player2_balls, player1_name, player2_name,
                   p1_balls, winner, turns, alive_p1_balls, alive_p2_balls,
                   result>>

\* P2Skip with the turn counted before the dead check
P2SkipCounts ==
    /\ pc = "p2"
    /\ p2_ball.dead
    /\ turn' = turn + 1
    /\ NextPair
    /\ UNCHANGED <<tournament_vars, roll, player1_balls, player2_balls, player1_name, player2_name,
                   p1_balls, p2_balls, winner, turns, alive_p1_balls,
                   alive_p2_balls, battle_log, result>>

\* "if not p2_ball.dead" fails
P2Skip ==
    /\ pc = "p2"
    /\ p2_ball.dead
    /\ NextPair
    /\ UNCHANGED <<tournament_vars, roll, player1_balls, player2_balls, player1_name, player2_name,
                   p1_balls, p2_balls, winner, turns, turn, alive_p1_balls,
                   alive_p2_balls, battle_log, result>>

\* player 2's ball misses
P2MissOp(sat) ==
    /\ pc = "p2"
    /\ ~p2_ball.dead
    /\ 1 \in Events
    /\ turn' = TurnAfter(sat)
    /\ battle_log' = LogAfter(sat, MissLine(turn'))
    /\ Continue
    /\ UNCHANGED <<tournament_vars, roll, player1_balls, player2_balls, player1_name, player2_name,
                   p1_balls, p2_balls, winner, turns, alive_p1_balls,
                   alive_p2_balls, result>>

\* player 2's ball attacks enemy e of side 1 for attack_dealt
P2HitOp(sat, e, attack_dealt) ==
    /\ pc = "p2"
    /\ ~p2_ball.dead
    /\ 0 \in Events
    /\ turn' = TurnAfter(sat)
    /\ IF Targets(p1_balls) = {}
       THEN /\ pc' = "raised"
            /\ UNCHANGED <<p1_balls, battle_log, k>>
       ELSE /\ e \in Targets(p1_balls)
            /\ attack_dealt \in Damages(p2_ball)
            /\ p1_balls' = Attacked(p1_balls, e, attack_dealt)
            /\ p1_balls'[e].health <= MaxTotalHealth
            /\ battle_log' = LogAfter(sat,
                   AttackLine(turn', p1_balls'[e], attack_dealt))
            /\ IF AllDead(p1_balls') THEN Break ELSE NextPair
    /\ UNCHANGED <<tournament_vars, roll, player1_balls, player2_balls, player1_name, player2_name,
                   p2_balls, winner, turns, alive_p1_balls, alive_p2_balls,
                   result>>

\* the events of a battle followed up to MaxTurn
P1Miss == turn < MaxTurn /\ P1MissOp(FALSE)

P1Hit ==
    /\ turn < MaxTurn
    /\ pc = "p1"
    /\ \E e \in 1..Len(p2_balls) : \E d \in Damages(p1_ball) :
           P1HitOp(FALSE, e, d)

P2Miss == turn < MaxTurn /\ P2MissOp(FALSE)

P2Hit ==
    /\ turn < MaxTurn
    /\ pc = "p2"
    /\ \E e \in 1..Len(p1_balls) : \E d \in Damages(p2_ball) :
           P2HitOp(FALSE, e, d)

----------------------------------------------------------------------------
(* simulate_tournament_battle: list() has exhausted the generator. *)

Return ==
    /\ pc = "exhausted"
    /\ result' = [winner |-> winner, turns |-> turns,
                  battle_log |-> battle_log]
    /\ pc' = "returned"
    /\ UNCHANGED <<tournament_vars, roll, player1_balls, player2_balls, player1_name, player2_name,
                   p1_balls, p2_balls, winner, turns, turn, alive_p1_balls,
                   alive_p2_balls, k, battle_log>>

----------------------------------------------------------------------------

Next ==
    \/ Simulate
    \/ Stalemate
    \/ EnterLoop
    \/ RoundStart
    \/ P1Skip
    \/ P1Miss
    \/ P1Hit
    \/ P2Skip
    \/ P2Miss
    \/ P2Hit
    \/ LoopExit
    \/ Return

Spec == Init /\ [][Next]_vars

\* The same program started from rosters that may break the preconditions.
SpecAny == InitAny /\ [][Next]_vars

----------------------------------------------------------------------------
(* Battles of four balls of health 1, followed up to MaxTurnFourBalls events. *)

FourBallsP1Miss == turn < MaxTurnFourBalls /\ P1MissOp(FALSE)

FourBallsP1Hit ==
    /\ turn < MaxTurnFourBalls
    /\ pc = "p1"
    /\ \E e \in 1..Len(p2_balls) : \E d \in Damages(p1_ball) :
           P1HitOp(FALSE, e, d)

FourBallsP2Miss == turn < MaxTurnFourBalls /\ P2MissOp(FALSE)

FourBallsP2Hit ==
    /\ turn < MaxTurnFourBalls
    /\ pc = "p2"
    /\ \E e \in 1..Len(p1_balls) : \E d \in Damages(p2_ball) :
           P2HitOp(FALSE, e, d)

NextFourBalls ==
    \/ Simulate
    \/ Stalemate
    \/ EnterLoop
    \/ RoundStart
    \/ P1Skip
    \/ FourBallsP1Miss
    \/ FourBallsP1Hit
    \/ P2Skip
    \/ FourBallsP2Miss
    \/ FourBallsP2Hit
    \/ LoopExit
    \/ Return

SpecFourBalls == InitFourBalls /\ [][NextFourBalls]_vars

----------------------------------------------------------------------------
(* Battles followed without end: the turn counter, which gen_battle never  *)
(* reads back, stays at MaxTurn once there, and so does the log.  The      *)
(* generator always runs on, and the random source is fair: a hit with a   *)
(* given target and damage that is possible again and again is drawn.      *)

LiveP1Miss == P1MissOp(TRUE)

LiveP1Hit(e, d) == pc = "p1" /\ P1HitOp(TRUE, e, d)

LiveP2Miss == P2MissOp(TRUE)

LiveP2Hit(e, d) == pc = "p2" /\ P2HitOp(TRUE, e, d)

LiveDamages == UNION {Damages([attack |-> a]) : a \in {0, 1}}

NextLive ==
    \/ Simulate
    \/ Stalemate
    \/ EnterLoop
    \/ RoundStart
    \/ P1Skip
    \/ LiveP1Miss
    \/ \E e \in 1..MaxLiveBalls : \E d \in LiveDamages : LiveP1Hit(e, d)
    \/ P2Skip
    \/ LiveP2Miss
    \/ \E e \in 1..MaxLiveBalls : \E d \in LiveDamages : LiveP2Hit(e, d)
    \/ LoopExit
    \/ Return

FairRandom ==
    \A e \in 1..MaxLiveBalls : \A d \in LiveDamages :
        SF_vars(LiveP1Hit(e, d)) /\ SF_vars(LiveP2Hit(e, d))

LiveSpec == InitLive /\ [][NextLive]_vars /\ WF_vars(NextLive) /\ FairRandom

----------------------------------------------------------------------------
(* get_damage on its own: one call on a ball of any attack value. *)

InitDamage ==
    /\ NoBattle(RostersOf(1, {1}, {0}))
    /\ roll \in {[NoRoll EXCEPT !.ball = [attack |-> a]] :
                    a \in -MaxAttack..MaxAttack}
    /\ NoTournament

GetDamage ==
    /\ ~roll.done
    /\ \E u \in Multipliers :
          roll' = [roll EXCEPT !.u = u, !.damage = get_damage(roll.ball, u),
                               !.done = TRUE]
    /\ UNCHANGED <<tournament_vars, player1_balls, player2_balls,
                   player1_name, player2_name,
                   p1_balls, p2_balls, winner, turns, turn, alive_p1_balls,
                   alive_p2_balls, k, pc, battle_log, result>>

NextDamage == GetDamage

SpecDamage == InitDamage /\ [][NextDamage]_vars

----------------------------------------------------------------------------
(* The tournament of one guild (cog.py, views.py, models.py).  The handlers *)
(* are coroutines on one event loop: a handler runs without interruption   *)
(* from one await that suspends it to the next, and a step of the model is *)
(* such a stretch.  Handlers whose checks fail only answer the user and    *)
(* change nothing; they are steps that leave every variable as it is.      *)

Users == 1..MaxUsers

\* tournament.organizer.id: the user who ran the create command
Organizer == 1

\* Tournament(...): state REGISTRATION, no participants.  players holds every
\* TournamentPlayer object made for the tournament, participants the
\* positions in players of the objects in tournament.participants.
\* challonge_participants holds the keys (user ids) of the dict.  The two
\* last fields are the tournament on the Challonge service: whether it
\* exists there, and how many participants it has there.
Tournament ==
    [state |-> "registration", players |-> <<>>, participants |-> <<>>,
     challonge_participants |-> {}, challonge_tournament |-> TRUE,
     challonge_count |-> 0]

\* TournamentPlayer(user, player_id): balls = [], eliminated = False.  balls
\* is the number of balls selected.
TournamentPlayer(user) == [user |-> user, balls |-> 0, eliminated |-> FALSE]

HasFreeSlot == \E s \in 1..MaxTasks : tasks[s] = NoTask

FreeSlot ==
    CHOOSE s \in 1..MaxTasks :
        tasks[s] = NoTask /\ \A r \in 1..(s - 1) : tasks[r] # NoTask

\* the handler is suspended at an await
Suspend(task) == tasks' = [tasks EXCEPT ![FreeSlot] = task]

\* the handler of slot s makes no further change
Finish(s) == tasks' = [tasks EXCEPT ![s] = NoTask]

\* the handlers of the given kind suspended on tournament t
Pending(kind, t) ==
    Cardinality({s \in 1..MaxTasks : tasks[s].kind = kind /\ tasks[s].t = t})

\* the TournamentPlayer objects in tournament.participants, in order
Participants(tournament) ==
    [i \in 1..Len(tournament.participants) |->
        tournament.players[tournament.participants[i]]]

\* some participant.user.id == interaction.user.id
Registered(tournament, user) ==
    \E i \in 1..Len(tournament.participants) :
        Participants(tournament)[i].user = user

\* seq without its element at position i
RemoveAt(seq, i) == SubSeq(seq, 1, i - 1) \o SubSeq(seq, i + 1, Len(seq))

\* the positions in participants of the objects equal to object (dataclass
\* equality: field by field)
EqualTo(tournament, object) ==
    {i \in 1..Len(tournament.participants) :
        Participants(tournament)[i] = object}

\* participants.remove(object): the first equal element goes
Remove(tournament, object) ==
    IF EqualTo(tournament, object) = {}
    THEN tournament
    ELSE [tournament EXCEPT !.participants =
             RemoveAt(@, CHOOSE i \in EqualTo(tournament, object) :
                             \A j \in EqualTo(tournament, object) : i <= j)]

\* for participant, _ in failed_participants:
\*     if participant in tournament.participants: remove it
RECURSIVE RemoveFailed(_, _)
RemoveFailed(tournament, failed) ==
    IF failed = <<>>
    THEN tournament
    ELSE RemoveFailed(Remove(tournament, tournament.players[Head(failed)]),
                      Tail(failed))

----------------------------------------------------------------------------
(* views.py: the buttons of the registration view of tournament t. *)

\* _handle_join up to "await Player.get_or_create": the three checks pass
handle_join(t, user) ==
    /\ t \in 1..Len(tournaments)
    /\ HasFreeSlot
    /\ Len(tournaments[t].players) + Pending("join", t) < MaxJoins
    /\ ~Registered(tournaments[t], user)
    /\ Len(tournaments[t].participants) < MaxParticipants
    /\ tournaments[t].state = "registration"
    /\ Suspend([NoTask EXCEPT !.kind = "join", !.t = t, !.user = user])
    /\ UNCHANGED <<active_tournaments, tournaments, calls, battle_vars>>

\* _handle_join from the await on: the participant is made and appended;
\* challonge.participants.create adds it on Challonge or raises (the
\* tournament may be gone there), which is logged
handle_join_resume(s) ==
    /\ tasks[s].kind = "join"
    /\ \E added \in BOOLEAN :
          LET t == tasks[s].t
              appended ==
                  [tournaments[t] EXCEPT
                      !.players = Append(@, TournamentPlayer(tasks[s].user)),
                      !.participants =
                          Append(@, Len(tournaments[t].players) + 1)]
          IN  /\ added => tournaments[t].challonge_tournament
              /\ tournaments' = [tournaments EXCEPT ![t] =
                     IF added
                     THEN [appended EXCEPT
                              !.challonge_participants = @ \cup {tasks[s].user},
                              !.challonge_count = @ + 1]
                     ELSE appended]
    /\ Finish(s)
    /\ UNCHANGED <<active_tournaments, calls, battle_vars>>

\* _handle_leave: the user's participant is found and registration is open;
\* it is removed, and if the dict has the user, participants.destroy removes
\* it on Challonge and the key goes, or raises, which is logged
handle_leave(t, user) ==
    /\ t \in 1..Len(tournaments)
    /\ Registered(tournaments[t], user)
    /\ tournaments[t].state = "registration"
    /\ LET first == CHOOSE i \in 1..Len(tournaments[t].participants) :
                        /\ Participants(tournaments[t])[i].user = user
                        /\ \A j \in 1..(i - 1) :
                              Participants(tournaments[t])[j].user # user
           removed == Remove(tournaments[t],
                             Participants(tournaments[t])[first])
       IN  \E destroyed \in BOOLEAN :
              /\ destroyed =>
                    /\ user \in tournaments[t].challonge_participants
                    /\ tournaments[t].challonge_tournament
              /\ tournaments' = [tournaments EXCEPT ![t] =
                     IF destroyed
                     THEN [removed EXCEPT
                              !.challonge_participants = @ \ {user},
                              !.challonge_count = @ - 1]
                     ELSE removed]
    /\ UNCHANGED <<active_tournaments, tasks, calls, battle_vars>>

\* _handle_start up to "await interaction.response.defer()": the organizer
\* clicks, there are two participants, registration is open
handle_start(t) ==
    /\ t \in 1..Len(tournaments)
    /\ HasFreeSlot
    /\ Len(tournaments[t].participants) >= 2
    /\ tournaments[t].state = "registration"
    /\ Suspend([NoTask EXCEPT !.kind = "start", !.t = t, !.user = Organizer])
    /\ UNCHANGED <<active_tournaments, tournaments, calls, battle_vars>>

\* the end of auto_select_balls_for_tournament and the rest of _handle_start:
\* the failed participants are removed; challonge.tournaments.start either
\* raises (started is FALSE) or returns, and the state is set to ACTIVE.
\* Challonge starts a tournament it has, with two participants or more.
start_tournament(s, tournament, failed, started) ==
    /\ started =>
          tournament.challonge_tournament /\ tournament.challonge_count >= 2
    /\ tournaments' =
           [tournaments EXCEPT ![tasks[s].t] =
               [RemoveFailed(tournament, failed) EXCEPT
                   !.state = IF started THEN "active" ELSE @]]
    /\ Finish(s)

\* the for loop of auto_select_balls_for_tournament takes the participant at
\* list position i, if there is one, and is suspended at "await Player.get"
select_next(s, tournament, i, failed, started) ==
    IF i <= Len(tournament.participants)
    THEN /\ tournaments' = [tournaments EXCEPT ![tasks[s].t] = tournament]
         /\ tasks' = [tasks EXCEPT ![s] =
                [@ EXCEPT !.kind = "select", !.i = i,
                          !.cur = tournament.participants[i],
                          !.failed = failed]]
    ELSE start_tournament(s, tournament, failed, started)

\* _handle_start from the defer on, into the first pass of the loop
handle_start_resume(s) ==
    /\ tasks[s].kind = "start"
    /\ \E started \in BOOLEAN :
          select_next(s, tournaments[tasks[s].t], 1, <<>>, started)
    /\ UNCHANGED <<active_tournaments, calls, battle_vars>>

\* one pass of the loop from its awaits on: the participant gets
\* balls_per_player balls (enough is TRUE) or is put on the failed list; the
\* loop goes on to the next list position
auto_select_balls(s) ==
    /\ tasks[s].kind = "select"
    /\ \E enough \in BOOLEAN : \E started \in BOOLEAN :
          LET tournament == tournaments[tasks[s].t]
              selected ==
                  IF enough
                  THEN [tournament EXCEPT
                           !.players[tasks[s].cur].balls = BallsPerPlayer]
                  ELSE tournament
              failed ==
                  IF enough THEN tasks[s].failed
                  ELSE Append(tasks[s].failed, tasks[s].cur)
          IN  select_next(s, selected, tasks[s].i + 1, failed, started)
    /\ UNCHANGED <<active_tournaments, calls, battle_vars>>

\* _handle_cancel: the organizer clicks; challonge.tournaments.destroy
\* removes the tournament on Challonge or raises, which is logged
handle_cancel(t) ==
    /\ t \in 1..Len(tournaments)
    /\ \E destroyed \in BOOLEAN :
          /\ destroyed => tournaments[t].challonge_tournament
          /\ tournaments' =
                 [tournaments EXCEPT
                     ![t].state = "cancelled",
                     ![t].challonge_tournament = IF destroyed THEN FALSE ELSE @]
    /\ tournaments' # tournaments
    /\ UNCHANGED <<active_tournaments, tasks, calls, battle_vars>>

----------------------------------------------------------------------------
(* cog.py: the commands. *)

\* create up to "await interaction.response.defer()": the guild has no
\* tournament and the type is valid
create ==
    /\ active_tournaments = 0
    /\ HasFreeSlot
    /\ Len(tournaments) + Pending("create", 0) < MaxTournaments
    /\ Suspend([NoTask EXCEPT !.kind = "create", !.user = Organizer])
    /\ UNCHANGED <<active_tournaments, tournaments, calls, battle_vars>>

\* create from the defer on: challonge.tournaments.create raises (created is
\* FALSE), or the Tournament is made and stored for the guild
create_resume(s) ==
    /\ tasks[s].kind = "create"
    /\ \E created \in BOOLEAN :
          IF created
          THEN /\ tournaments' = Append(tournaments, Tournament)
               /\ active_tournaments' = Len(tournaments) + 1
          ELSE UNCHANGED <<tournaments, active_tournaments>>
    /\ Finish(s)
    /\ UNCHANGED <<calls, battle_vars>>

\* cancel up to "await interaction.response.send_message": the organizer
\* runs it, the guild has a tournament; challonge.tournaments.destroy as in
\* handle_cancel, then the state is set
cancel ==
    /\ active_tournaments # 0
    /\ HasFreeSlot
    /\ \E destroyed \in BOOLEAN :
          /\ destroyed => tournaments[active_tournaments].challonge_tournament
          /\ tournaments' =
                 [tournaments EXCEPT
                     ![active_tournaments].state = "cancelled",
                     ![active_tournaments].challonge_tournament =
                         IF destroyed THEN FALSE ELSE @]
    /\ Suspend([NoTask EXCEPT !.kind = "cancel", !.t = active_tournaments,
                              !.user = Organizer])
    /\ UNCHANGED <<active_tournaments, calls, battle_vars>>

\* cancel from the await on: the guild's entry is deleted
cancel_resume(s) ==
    /\ tasks[s].kind = "cancel"
    /\ active_tournaments' = 0
    /\ Finish(s)
    /\ UNCHANGED <<tournaments, calls, battle_vars>>

----------------------------------------------------------------------------
(* The commands of the guild and the Cancel button under every             *)
(* interleaving: the tournaments made and the one stored for the guild.    *)

InitGuild ==
    /\ NoBattle(RostersOf(1, {1}, {0}))
    /\ roll = NoRoll
    /\ NoTournament

NextGuild ==
    \/ create
    \/ \E s \in 1..MaxTasks : create_resume(s)
    \/ \E t \in 1..MaxTournaments : handle_cancel(t)
    \/ cancel
    \/ \E s \in 1..MaxTasks : cancel_resume(s)

SpecGuild == InitGuild /\ [][NextGuild]_vars

----------------------------------------------------------------------------
(* The registration of one tournament, made and stored for the guild,      *)
(* under every interleaving of its view's handlers and the cancel command. *)

InitRegistration ==
    /\ NoBattle(RostersOf(1, {1}, {0}))
    /\ roll = NoRoll
    /\ active_tournaments = 1
    /\ tournaments = <<Tournament>>
    /\ tasks = [s \in 1..MaxTasks |-> NoTask]
    /\ calls = <<>>

NextRegistration ==
    \/ \E user \in Users : handle_join(1, user)
    \/ \E s \in 1..MaxTasks : handle_join_resume(s)
    \/ \E user \in Users : handle_leave(1, user)
    \/ handle_start(1)
    \/ \E s \in 1..MaxTasks : handle_start_resume(s)
    \/ \E s \in 1..MaxTasks : auto_select_balls(s)
    \/ handle_cancel(1)
    \/ cancel
    \/ \E s \in 1..MaxTasks : cancel_resume(s)

SpecRegistration == InitRegistration /\ [][NextRegistration]_vars

----------------------------------------------------------------------------
(* cog.py: one match of an ACTIVE tournament, from process_tournaments to  *)
(* the end of _process_tournament.  The match is between the first two     *)
(* participants, whose balls are player1_balls and player2_balls and whose *)
(* display names are player1_name and player2_name; pc goes on from the    *)
(* battle's return.                                                        *)

\* [p for p in tournament.participants if not p.eliminated]
active_players(tournament) ==
    {i \in 1..Len(tournament.participants) :
        ~Participants(tournament)[i].eliminated}

\* process_tournaments, _process_tournament and _simulate_match up to the
\* battle: the tournament is ACTIVE and Challonge has the match open
simulate_match ==
    /\ pc = "idle"
    /\ tournaments[1].state = "active"
    /\ Simulate

\* challonge.matches.update for the winner (reported), or its raising, which
\* ends _simulate_match; the calls made so far are cs
match_update(cs, reported) ==
    /\ reported => tournaments[1].challonge_tournament
    /\ calls' = IF reported THEN Append(cs, "update") ELSE cs
    /\ pc' = "sent"

\* _simulate_match from the battle's result on: the loser is marked; if one
\* participant is left the state is set to FINISHED and
\* _handle_tournament_complete is awaited, which returns at once without a
\* channel and else sleeps; then the match is reported
eliminate_loser ==
    /\ pc = "returned"
    /\ LET loser == IF result.winner = player1_name THEN 2 ELSE 1
           marked ==
               [tournaments[1] EXCEPT
                   !.players[tournaments[1].participants[loser]].eliminated =
                       TRUE]
       IN  IF Cardinality(active_players(marked)) = 1
           THEN /\ tournaments' =
                       [tournaments EXCEPT
                           ![1] = [marked EXCEPT !.state = "finished"]]
                /\ \E channel \in BOOLEAN : \E reported \in BOOLEAN :
                      IF channel
                      THEN /\ calls' = Append(calls, "finished")
                           /\ pc' = "sleep"
                      ELSE match_update(Append(calls, "finished"), reported)
           ELSE /\ tournaments' = [tournaments EXCEPT ![1] = marked]
                /\ \E reported \in BOOLEAN : match_update(calls, reported)
    /\ UNCHANGED <<active_tournaments, tasks, battle_frame>>

\* _handle_tournament_complete from the sleep on: the standings are read
\* with challonge.participants.index and the champion is announced, or the
\* call raises and _simulate_match goes on to report the match
handle_tournament_complete ==
    /\ pc = "sleep"
    /\ \E standings \in BOOLEAN : \E reported \in BOOLEAN :
          IF standings
          THEN /\ tournaments[1].challonge_tournament
               /\ calls' = Append(calls, "standings")
               /\ pc' = "announce"
          ELSE match_update(calls, reported)
    /\ UNCHANGED <<active_tournaments, tournaments, tasks, battle_frame>>

\* _handle_tournament_complete from channel.send on: the guild's entry is
\* deleted; back in _simulate_match the match is reported
handle_tournament_complete_resume ==
    /\ pc = "announce"
    /\ active_tournaments' = 0
    /\ \E reported \in BOOLEAN : match_update(calls, reported)
    /\ UNCHANGED <<tournaments, tasks, battle_frame>>

\* the end of _process_tournament: if Challonge, having all results, awaits
\* review, the tournament is finalized and the state set to FINISHED
process_tournament ==
    /\ pc = "sent"
    /\ \E review \in BOOLEAN :
          /\ review =>
                /\ tournaments[1].challonge_tournament
                /\ \E i \in 1..Len(calls) : calls[i] = "update"
          /\ tournaments' =
                 [tournaments EXCEPT
                     ![1].state = IF review THEN "finished" ELSE @]
          /\ calls' = IF review THEN Append(calls, "finished") ELSE calls
    /\ pc' = "processed"
    /\ UNCHANGED <<active_tournaments, tasks, battle_frame>>

\* an ACTIVE tournament of two or three participants, the third eliminated
\* or not, each with as many balls as the tournament's balls_per_player
MatchTournaments ==
    {[Tournament EXCEPT
         !.state = "active",
         !.players = [i \in 1..n |->
             [TournamentPlayer(i) EXCEPT
                 !.balls = Len(player1_balls),
                 !.eliminated = (i = 3 /\ third)]],
         !.participants = [i \in 1..n |-> i],
         !.challonge_participants = 1..n,
         !.challonge_count = n] : n \in 2..3, third \in BOOLEAN}

InitMatch ==
    /\ NoBattle(LiveRosters)
    /\ Len(player1_balls) = Len(player2_balls)
    /\ roll = NoRoll
    /\ active_tournaments = 1
    /\ tournaments \in {<<tournament>> : tournament \in MatchTournaments}
    /\ tasks = [s \in 1..MaxTasks |-> NoTask]
    /\ calls = <<>>

NextMatch ==
    \/ simulate_match
    \/ Stalemate
    \/ EnterLoop
    \/ RoundStart
    \/ P1Skip
    \/ P1Miss
    \/ P1Hit
    \/ P2Skip
    \/ P2Miss
    \/ P2Hit
    \/ LoopExit
    \/ Return
    \/ eliminate_loser
    \/ handle_tournament_complete
    \/ handle_tournament_complete_resume
    \/ process_tournament

SpecMatch == InitMatch /\ [][NextMatch]_vars

----------------------------------------------------------------------------
(* Properties. *)

\* the battle's balls, both sides
Balls == p1_balls \o p2_balls

\* the caller's balls, both sides
PlayerBalls == player1_balls \o player2_balls

\* a battle is under way or over (the BattleInstance exists)
InBattle == pc \notin {"idle"}

\* each side has a ball with attack > 0
EachSideAttacks ==
    /\ \E i \in 1..Len(player1_balls) : player1_balls[i].attack > 0
    /\ \E i \in 1..Len(player2_balls) : player2_balls[i].attack > 0

\* C1: from valid rosters in which each side has a ball with attack > 0, the
\* call eventually returns (under a fair random source).
C1_Terminates == EachSideAttacks => <>(pc = "returned")

\* every ball of both rosters has attack <= 0
AllNonPositive ==
    \A i \in 1..Len(PlayerBalls) : PlayerBalls[i].attack <= 0

\* no ball of the battle differs in health or dead flag from the caller's ball
Untouched ==
    /\ Len(Balls) = Len(PlayerBalls)
    /\ \A i \in 1..Len(Balls) :
          Balls[i].health = PlayerBalls[i].health /\ ~Balls[i].dead

\* C2: stalemate law. If every ball of both rosters has attack <= 0, the
\* round loop is never entered, no ball's health or dead flag changes, winner
\* stays "" and turns 0, the generator yields exactly one line, and
\* simulate_tournament_battle returns exactly these values.
C2_StalemateLaw ==
    (AllNonPositive /\ InBattle) =>
        /\ pc \in {"entry", "exhausted", "returned"}
        /\ Untouched
        /\ winner = "" /\ turns = 0 /\ turn = 0
        /\ battle_log = IF pc = "entry" THEN <<>> ELSE <<StaredLine>>
        /\ pc = "returned" =>
              result = [winner |-> "", turns |-> 0,
                        battle_log |-> <<StaredLine>>]

C2_Witness ==
    /\ AllNonPositive
    /\ pc = "returned"
    /\ result.battle_log = <<StaredLine>>
    /\ \E i \in 1..Len(PlayerBalls) : PlayerBalls[i].attack = 0

\* C3: monotonic health. During a battle no ball's health increases from one
\* step to the next, and no health is negative.
C3_MonotonicHealth ==
    [][(InBattle /\ pc' # "entry") =>
          /\ \A i \in 1..Len(p1_balls) :
                /\ p1_balls'[i].health <= p1_balls[i].health
                /\ p1_balls'[i].health >= 0
          /\ \A i \in 1..Len(p2_balls) :
                /\ p2_balls'[i].health <= p2_balls[i].health
                /\ p2_balls'[i].health >= 0]_vars

\* the call is over: the generator is exhausted
Over == pc \in {"exhausted", "returned"}

SomeHealthy(balls) == \E i \in 1..Len(balls) : balls[i].health > 0

\* C4: winner exclusivity. When a resolution ends with a non-empty winner,
\* the side whose owner label is the winner has a ball with health > 0 and the
\* other side has none.
C4_WinnerExclusive ==
    (Over /\ winner # "") =>
        \/ /\ winner = player1_name
           /\ SomeHealthy(p1_balls) /\ ~SomeHealthy(p2_balls)
        \/ /\ winner = player2_name
           /\ SomeHealthy(p2_balls) /\ ~SomeHealthy(p1_balls)

C4_Witness ==
    /\ pc = "returned"
    /\ result.winner = player2_name
    /\ Len(p1_balls) = 2
    /\ SomeHealthy(p2_balls) /\ ~SomeHealthy(p1_balls)

\* C5: winner determination order. After the round loop of a non-stalemate
\* battle has exited: if side 1 is fully dead the winner is side 2's owner;
\* if side 1 is not fully dead and side 2 is, the winner is side 1's owner;
\* and the winner is not empty.
C5_WinnerOrder ==
    (Over /\ ~AllNonPositive) =>
        /\ AllDead(p1_balls) => winner = p2_balls[1].owner
        /\ (~AllDead(p1_balls) /\ AllDead(p2_balls)) =>
              winner = p1_balls[1].owner
        /\ winner # ""

C5_Witness ==
    /\ pc = "exhausted"
    /\ ~AllNonPositive
    /\ ~AllDead(p1_balls) /\ AllDead(p2_balls)
    /\ winner = player1_name

\* C6: log/turn consistency. In a non-stalemate battle the number of lines
\* yielded equals the turn counter, the i-th line carries turn number i and is
\* a miss, damage or kill line, and the final turns equals the number of lines.
C6_LogTurnConsistent ==
    (InBattle /\ ~AllNonPositive) =>
        /\ Len(battle_log) = turn
        /\ \A i \in 1..Len(battle_log) :
              /\ battle_log[i].turn = i
              /\ battle_log[i].kind \in {"missed", "dealt", "killed"}
        /\ Over => turns = Len(battle_log)
        /\ pc = "returned" =>
              /\ result.turns = Len(result.battle_log)
              /\ result.battle_log = battle_log

C6_Witness ==
    /\ pc = "returned"
    /\ result.turns = 3
    /\ Len(result.battle_log) = 3
    /\ \E i \in 1..Len(Balls) : Balls[i].dead

\* C7: a ball's dead flag is true iff its health is 0, and a ball that is dead
\* stays dead with health 0 for the rest of the battle.
C7_DeadIffZero ==
    /\ [](\A i \in 1..Len(Balls) : Balls[i].dead <=> Balls[i].health = 0)
    /\ [][(InBattle /\ pc' # "entry") =>
             \A i \in 1..Len(Balls) :
                 Balls[i].dead => (Balls'[i].dead /\ Balls'[i].health = 0)]_vars

C7_Witness ==
    /\ pc = "p1"
    /\ \E i \in 1..Len(Balls) : Balls[i].dead /\ Balls[i].health = 0
    /\ \E i \in 1..Len(Balls) : ~Balls[i].dead /\ Balls[i].health > 1

\* a roster is empty or a ball starts with health <= 0
InvalidRosters ==
    \/ player1_balls = <<>>
    \/ player2_balls = <<>>
    \/ \E i \in 1..Len(PlayerBalls) : PlayerBalls[i].health <= 0

\* C8: invalid roster rejection. A resolution started with an empty roster,
\* or with a ball of starting health <= 0, ends in an error at entry: it yields
\* no line, counts no turn, sets no winner and does not return a result.
C8_InvalidRejected ==
    (InvalidRosters /\ InBattle) =>
        /\ pc \in {"entry", "raised"}
        /\ battle_log = <<>>
        /\ turn = 0
        /\ winner = ""

\* the step yields a miss line
YieldsMiss ==
    /\ Len(battle_log') = Len(battle_log) + 1
    /\ battle_log'[Len(battle_log')].kind = "missed"

\* C9: a miss event increments the turn counter by exactly one, emits one
\* miss line, and leaves the health and dead flag of every ball unchanged.
C9_MissFrame ==
    [][YieldsMiss =>
          /\ turn' = turn + 1
          /\ battle_log' = Append(battle_log, MissLine(turn + 1))
          /\ \A i \in 1..Len(Balls) :
                /\ Balls'[i].health = Balls[i].health
                /\ Balls'[i].dead = Balls[i].dead]_vars

C9_Witness ==
    /\ Len(battle_log) >= 2
    /\ battle_log[Len(battle_log)].kind = "missed"
    /\ battle_log[1].kind = "dealt"
    /\ turn = Len(battle_log)

\* C10: within one pair, a miss by side 1's ball only skips its own attack:
\* the round proceeds to side 2's ball of the same pair.
C10_MissKeepsPair ==
    [][(pc = "p1" /\ YieldsMiss) => (pc' = "p2" /\ k' = k)]_vars

\* the step yields a hit line (damage or kill)
YieldsHit ==
    /\ Len(battle_log') = Len(battle_log) + 1
    /\ battle_log'[Len(battle_log')].kind \in {"dealt", "killed"}

\* a hit by the ball at pc can change ball e of side 2 / side 1
P1CanHit(e) == ENABLED (P1Hit /\ p2_balls'[e] # p2_balls[e])
P2CanHit(e) == ENABLED (P2Hit /\ p1_balls'[e] # p1_balls[e])

\* C11: targeting. A hit changes no ball of the attacker's side and no ball
\* that was dead at the moment of the attack; and every ball of the opposing
\* roster alive at that moment, paired with the attacker or not, can be the
\* ball a hit of an attacker with attack > 0 lands on.
C11_Targeting ==
    /\ [][(pc = "p1" /\ YieldsHit) =>
             /\ p1_balls' = p1_balls
             /\ \A i \in 1..Len(p2_balls) :
                   p2_balls'[i] # p2_balls[i] => ~p2_balls[i].dead]_vars
    /\ [][(pc = "p2" /\ YieldsHit) =>
             /\ p2_balls' = p2_balls
             /\ \A i \in 1..Len(p1_balls) :
                   p1_balls'[i] # p1_balls[i] => ~p1_balls[i].dead]_vars
    /\ []((pc = "p1" /\ turn < MaxTurn /\ ~p1_ball.dead
              /\ p1_ball.attack > 0) =>
             \A e \in 1..Len(p2_balls) : ~p2_balls[e].dead => P1CanHit(e))
    /\ []((pc = "p2" /\ turn < MaxTurn /\ ~p2_ball.dead
              /\ p2_ball.attack > 0) =>
             \A e \in 1..Len(p1_balls) : ~p1_balls[e].dead => P2CanHit(e))

\* the first event of the battle: side 1's first ball killed side 2's second
\* ball, which is not its paired counterpart
C11_Witness ==
    /\ pc = "p2" /\ k = 1 /\ turn = 1
    /\ Len(p2_balls) = 2
    /\ p2_balls[2].dead /\ ~p2_balls[1].dead

\* a round is under way
InRound == pc \in {"p1", "p2"}

\* list holds exactly the balls of balls that are not dead, in roster order
IsLivingList(list, balls) ==
    /\ \A i \in 1..Len(list) : list[i] \in 1..Len(balls)
    /\ \A i \in 1..Len(list) : \A j \in 1..Len(list) :
          i < j => list[i] < list[j]
    /\ {list[i] : i \in 1..Len(list)} =
          {b \in 1..Len(balls) : ~balls[b].dead}

ShorterLen ==
    IF Len(alive_p1_balls) <= Len(alive_p2_balls)
    THEN Len(alive_p1_balls) ELSE Len(alive_p2_balls)

\* C12: round pairing. A round starts at position 1 of the two lists of the
\* balls alive at that moment, in roster order, and the lists stay as they
\* are during the round; only the ball at the current position of its list
\* attempts, side 1's at "p1" and side 2's at "p2"; within a round the
\* position never decreases, side 1's step of a position comes before side
\* 2's, and the position never exceeds the length of the shorter list.
C12_RoundPairing ==
    /\ [][(~InRound /\ InRound') =>
             /\ IsLivingList(alive_p1_balls', p1_balls)
             /\ IsLivingList(alive_p2_balls', p2_balls)
             /\ k' = 1 /\ pc' = "p1"]_vars
    /\ [][InRound => UNCHANGED <<alive_p1_balls, alive_p2_balls>>]_vars
    /\ [][(InRound /\ InRound') =>
             \/ k' = k /\ pc = "p1" /\ pc' = "p2"
             \/ k' = k + 1 /\ pc' = "p1"]_vars
    /\ [][(InBattle /\ turn' # turn /\ pc' # "entry") => InRound]_vars
    /\ [](InRound => k \in 1..ShorterLen)

\* a later round: side 1's first ball is dead, the lists are <<2>> and
\* <<1, 2>>, and side 2's second ball is unpaired
C12_Witness ==
    /\ pc = "p2"
    /\ alive_p1_balls = <<2>>
    /\ alive_p2_balls = <<1, 2>>
    /\ k = 1

\* the rosters have sizes 3 and 1
ThreeVsOne ==
    \/ Len(player1_balls) = 3 /\ Len(player2_balls) = 1
    \/ Len(player1_balls) = 1 /\ Len(player2_balls) = 3

\* b is the first ball of balls, in roster order, that is not dead
FirstLiving(b, balls) ==
    /\ b \in 1..Len(balls)
    /\ ~balls[b].dead
    /\ \A j \in 1..(b - 1) : balls[j].dead

\* C13: with rosters of sizes 3 and 1 every round has the single pair of the
\* first living ball of each side, so a ball of the larger side is paired, and
\* attempts, exactly in the rounds in which every ball ahead of it is dead;
\* the witness is the execution in which the third ball of the larger side
\* makes the fifth attempt of the battle and kills the lone ball.
C13_ThreeVsOne ==
    /\ [][(ThreeVsOne /\ ~InRound /\ InRound') =>
             /\ FirstLiving(alive_p1_balls'[1], p1_balls)
             /\ FirstLiving(alive_p2_balls'[1], p2_balls)]_vars
    /\ []((ThreeVsOne /\ InRound) =>
             /\ k = 1
             /\ \A j \in 1..(alive_p1_balls[1] - 1) : p1_balls[j].dead
             /\ \A j \in 1..(alive_p2_balls[1] - 1) : p2_balls[j].dead)
    /\ [][(ThreeVsOne /\ InBattle /\ turn' # turn /\ pc' # "entry") =>
             /\ InRound
             /\ pc = "p1" => ~p1_balls[alive_p1_balls[1]].dead
             /\ pc = "p2" => ~p2_balls[alive_p2_balls[1]].dead]_vars

C13_Witness ==
    /\ Len(p1_balls) = 3 /\ Len(p2_balls) = 1
    /\ alive_p1_balls = <<3>>
    /\ turn = 5
    /\ battle_log[5].kind = "killed"
    /\ p2_balls[1].dead
    /\ ~p1_balls[3].dead

\* the step is an attack or miss attempt
Attempt == InBattle /\ turn' # turn /\ pc' # "entry"

\* C14: no ball whose dead flag is true makes an attack or miss attempt, a
\* ball of the round's snapshot that was killed earlier in the round included.
C14_DeadNeverAttempts ==
    [][Attempt =>
          /\ InRound
          /\ pc = "p1" => ~p1_balls[alive_p1_balls[k]].dead
          /\ pc = "p2" => ~p2_balls[alive_p2_balls[k]].dead]_vars

\* a ball of the snapshot is dead when its step comes, and is passed over
C14_Witness ==
    /\ pc = "p1"
    /\ p1_balls[alive_p1_balls[k]].dead
    /\ turn = 2

\* a side is fully dead
Wiped == InBattle /\ (AllDead(p1_balls) \/ AllDead(p2_balls))

\* C15: early exit. Once a hit has left every ball of one side dead the round
\* is left at once, and no attack or miss event follows: the turn counter,
\* the log and every ball stay as they are until the result is finalised.
C15_EarlyExit ==
    /\ [](Wiped => pc \in {"while", "exhausted", "returned"})
    /\ [][(Wiped /\ pc' # "entry") =>
             /\ turn' = turn
             /\ battle_log' = battle_log
             /\ p1_balls' = p1_balls
             /\ p2_balls' = p2_balls]_vars

\* player 1's hit of the second round has wiped player 2: the loop is left
\* before the paired ball of player 2 gets its step
C15_Witness ==
    /\ pc = "while"
    /\ AllDead(p2_balls)
    /\ Len(p2_balls) = 2
    /\ Len(alive_p1_balls) = 2 /\ Len(alive_p2_balls) = 1
    /\ k = 1
    /\ turn = 3

\* every ball of both sides is dead
DoubleWipe ==
    InBattle /\ \A i \in 1..Len(Balls) : Balls[i].dead \/ Balls[i].health <= 0

\* C16 as stated: a double wipe is possible, so rosters in which each side
\* has a ball with attack > 0, replayed for ever under a fair random source,
\* come to one.
C16_DoubleWipeHappens == EachSideAttacks => <>DoubleWipe

\* C16: a double wipe is impossible. In every state of a battle from valid
\* rosters some ball is not dead and has health > 0: a hit kills balls of the
\* side opposing a living attacker only.
C16_NoDoubleWipe == ~DoubleWipe

\* the round in which one side's last ball dies ends with the other side alive
C16_Witness ==
    /\ pc = "exhausted"
    /\ AllDead(p1_balls) /\ Len(p1_balls) = 2
    /\ AnyAlive(p2_balls) /\ Len(p2_balls) = 2

\* the exact product attack * U, in hundredths
Product == roll.ball.attack * roll.u

\* a living ball of health h
LivingBall(h) ==
    [name |-> 1, owner |-> "A", health |-> h, attack |-> 0, dead |-> FALSE]

\* C17 as stated: the damage is floor(attack * U), the integer d with
\* d <= attack * U < d + 1, for every attack value, negative ones included.
C17_DamageIsFloor ==
    roll.done =>
        /\ 100 * roll.damage <= Product
        /\ Product < 100 * (roll.damage + 1)

\* C17: the damage is attack * U truncated towards zero: floor(attack * U)
\* when attack >= 0, and the integer d with d - 1 < attack * U <= d when
\* attack < 0. It is not raised to a minimum of 1: a damage of 0 leaves the
\* health of the ball that is hit as it was.
C17_DamageIsTruncated ==
    roll.done =>
        /\ roll.ball.attack >= 0 =>
              /\ 100 * roll.damage <= Product
              /\ Product < 100 * (roll.damage + 1)
        /\ roll.ball.attack < 0 =>
              /\ 100 * (roll.damage - 1) < Product
              /\ Product <= 100 * roll.damage
        /\ roll.damage = 0 =>
              \A h \in 1..MaxTotalHealth :
                  Hurt(LivingBall(h), roll.damage) = LivingBall(h)

\* a positive attack value whose hit deals 0
C17_Witness ==
    /\ roll.done
    /\ roll.ball.attack = 1
    /\ roll.u = 99
    /\ roll.damage = 0

\* the positions at which two lists of balls differ
Changed(old, new) == {i \in 1..Len(old) : new[i] # old[i]}

\* the line just yielded
LastLine == battle_log'[Len(battle_log')]

\* no ball is added or dropped, and no ball's attack, name or owner changes
SameBalls ==
    /\ Len(p1_balls') = Len(p1_balls)
    /\ Len(p2_balls') = Len(p2_balls)
    /\ \A i \in 1..Len(Balls) :
          /\ Balls'[i].attack = Balls[i].attack
          /\ Balls'[i].name = Balls[i].name
          /\ Balls'[i].owner = Balls[i].owner

\* the hit changed exactly n balls of the list, each of them a ball that was
\* not dead, in its health and dead flag as the line just yielded tells
HitChanged(old, new, n) ==
    /\ Cardinality(Changed(old, new)) = n
    /\ \A i \in Changed(old, new) :
          /\ ~old[i].dead
          /\ LastLine.kind = "killed" =>
                new[i] = [old[i] EXCEPT !.health = 0, !.dead = TRUE]
          /\ LastLine.kind = "dealt" =>
                /\ new[i] = [old[i] EXCEPT !.health = @ - LastLine.dmg]
                /\ new[i].health > 0

\* C18 as stated: every hit changes the health or dead flag of exactly one
\* ball, one of the side opposing the attacker.
C18_HitChangesExactlyOne ==
    [][(InBattle /\ pc' # "entry" /\ YieldsHit) =>
          /\ pc = "p1" =>
                p1_balls' = p1_balls /\ HitChanged(p2_balls, p2_balls', 1)
          /\ pc = "p2" =>
                p2_balls' = p2_balls /\ HitChanged(p1_balls, p1_balls', 1)]_vars

\* C18: a hit of damage other than 0 changes the health and dead flag of
\* exactly one ball, a living ball of the side opposing the attacker, and a
\* hit of damage 0 changes none; the attacker, every other ball, and the
\* attack value of every ball are unchanged by every event of the battle.
C18_HitChangesTarget ==
    [][(InBattle /\ pc' # "entry") =>
          /\ SameBalls
          /\ ~YieldsHit => p1_balls' = p1_balls /\ p2_balls' = p2_balls
          /\ YieldsHit =>
                LET n == IF LastLine.kind = "dealt" /\ LastLine.dmg = 0
                         THEN 0 ELSE 1
                IN  /\ pc \in {"p1", "p2"}
                    /\ pc = "p1" =>
                          /\ p1_balls' = p1_balls
                          /\ HitChanged(p2_balls, p2_balls', n)
                    /\ pc = "p2" =>
                          /\ p2_balls' = p2_balls
                          /\ HitChanged(p1_balls, p1_balls', n)]_vars

\* the first hit took 1 from the second of two opposing balls and left the
\* first as it was
C18_Witness ==
    /\ pc = "p2"
    /\ turn = 1
    /\ battle_log[1].kind = "dealt" /\ battle_log[1].dmg = 1
    /\ Len(p2_balls) = 2
    /\ p2_balls[1].health = player2_balls[1].health
    /\ p2_balls[2].health = player2_balls[2].health - 1
    /\ p1_balls[1].health = player1_balls[1].health

\* the battle's balls of one side are the caller's, not dead, at the
\* caller's health and attack
Fresh(balls, player_balls, owner_name) ==
    /\ Len(balls) = Len(player_balls)
    /\ \A i \in 1..Len(balls) :
          /\ balls[i].name = player_balls[i].country
          /\ balls[i].owner = owner_name
          /\ balls[i].health = player_balls[i].health
          /\ balls[i].attack = player_balls[i].attack
          /\ ~balls[i].dead

\* C19: battles are independent. No step of a call changes the caller's
\* balls, and every call, the first and each later one on the same rosters,
\* starts from the same state: the battle's balls at the caller's health and
\* attack and not dead, turn 0, no line, no winner.
C19_Independent ==
    /\ [][/\ player1_balls' = player1_balls
          /\ player2_balls' = player2_balls]_vars
    /\ [][(pc \in {"idle", "returned"} /\ pc' # pc) =>
             /\ pc' = "entry"
             /\ Fresh(p1_balls', player1_balls, player1_name)
             /\ Fresh(p2_balls', player2_balls, player2_name)
             /\ turn' = 0 /\ turns' = 0 /\ winner' = ""
             /\ battle_log' = <<>>]_vars

\* a call has returned from a battle with a death and a health loss, the
\* caller's balls are as they were, and the next call is about to be made
C19_Witness ==
    /\ pc = "returned"
    /\ p2_balls[1].dead
    /\ p1_balls[1].health < player1_balls[1].health /\ ~p1_balls[1].dead
    /\ \A i \in 1..Len(PlayerBalls) : PlayerBalls[i].health > 0

\* gen_battle has not yet yielded its last line
Producing == pc \in {"entry", "while", "p1", "p2"}

\* C20: winner and turns are written only at the end of resolution. While
\* lines are still being produced winner is "" and turns is 0; they change
\* on one step only, the one that ends the loop, after which no line is
\* produced and neither changes again.
C20_WrittenAtEnd ==
    /\ [](Producing => winner = "" /\ turns = 0)
    /\ [][(InBattle /\ pc' # "entry" /\ (winner' # winner \/ turns' # turns)) =>
             /\ pc = "while" /\ pc' = "exhausted"
             /\ winner = "" /\ turns = 0
             /\ battle_log' = battle_log]_vars
    /\ [][(Over /\ pc' # "entry") =>
             /\ winner' = winner
             /\ turns' = turns
             /\ battle_log' = battle_log]_vars

\* resolution has ended after a second round: both fields are written, turns
\* counting every line
C20_Witness ==
    /\ pc = "exhausted"
    /\ winner = "B"
    /\ turns = 3
    /\ Len(battle_log) = 3

\* C21: in a battle from valid rosters attack() is called only when the
\* opposing side has a living ball: whenever a ball that is not dead is at
\* its step, random.choice has a target to draw, and no call raises.
C21_TargetExists ==
    /\ pc # "raised"
    /\ (pc = "p1" /\ ~p1_ball.dead) => Targets(p2_balls) # {}
    /\ (pc = "p2" /\ ~p2_ball.dead) => Targets(p1_balls) # {}

\* a living ball at its step with a single target left, the other being dead
C21_Witness ==
    /\ pc = "p2"
    /\ ~p2_ball.dead
    /\ Len(p1_balls) = 2
    /\ Cardinality(Targets(p1_balls)) = 1

\* the tournaments made so far
Made == 1..Len(tournaments)

\* C22: registration capacity and uniqueness. Under every interleaving of
\* the join handlers, tournament.participants never holds the same user
\* twice and never more than max_participants entries.
C22_CapacityUnique ==
    \A t \in Made :
        /\ Len(tournaments[t].participants) <= MaxParticipants
        /\ \A i, j \in 1..Len(tournaments[t].participants) :
              Participants(tournaments[t])[i].user =
                  Participants(tournaments[t])[j].user => i = j

\* C23: registration closes at start. Once the state of a tournament is no
\* longer REGISTRATION, no handler adds or removes a participant.
C23_ClosedAtStart ==
    [][\A t \in Made :
          tournaments[t].state # "registration" =>
              tournaments'[t].participants = tournaments[t].participants]_vars

\* C24: one tournament per guild. No step replaces the tournament stored for
\* the guild by another one.
C24_NeverReplaced ==
    [][(active_tournaments # 0 /\ active_tournaments' # 0) =>
          active_tournaments' = active_tournaments]_vars

\* C25: once a cancel handler has finished, the guild has no entry left in
\* active_tournaments: a CANCELLED tournament is stored for the guild only
\* while a cancel command is still under way.
C25_CancelledRemoved ==
    (active_tournaments # 0
        /\ tournaments[active_tournaments].state = "cancelled") =>
            \E s \in 1..MaxTasks : tasks[s].kind = "cancel"

\* C26: CANCELLED is absorbing. A tournament whose state is CANCELLED never
\* becomes ACTIVE or FINISHED.
C26_CancelledAbsorbing ==
    [][\A t \in Made :
          tournaments[t].state = "cancelled" =>
              tournaments'[t].state \notin {"active", "finished"}]_vars

\* C27: a tournament in state ACTIVE has at least 2 participants, each with
\* exactly balls_per_player selected balls.
C27_ActiveRosters ==
    \A t \in Made :
        tournaments[t].state = "active" =>
            /\ Len(tournaments[t].participants) >= 2
            /\ \A i \in 1..Len(tournaments[t].participants) :
                  Participants(tournaments[t])[i].balls = BallsPerPlayer

\* participant i of the tournament is marked eliminated
Eliminated(i) == Participants(tournaments[1])[i].eliminated

\* the participants the step marks eliminated
Marked ==
    {i \in 1..Len(tournaments[1].participants) : ~Eliminated(i) /\ Eliminated(i)'}

\* C28: each simulated match marks exactly one of its two players
\* eliminated, and only the one whose opponent the battle declared the
\* winner; a battle without a winner eliminates nobody; no eliminated flag
\* goes back to false.
C28_LoserEliminated ==
    [][/\ \A i \in 1..Len(tournaments[1].participants) :
              Eliminated(i) => Eliminated(i)'
       /\ Marked # {} => pc = "returned"
       /\ (pc = "returned" /\ pc' # pc) =>
              /\ result.winner = player1_name => Marked = {2}
              /\ result.winner = player2_name => Marked = {1}
              /\ result.winner \notin {player1_name, player2_name} =>
                    Marked = {}]_vars

\* C29: when a match leaves one participant, its result is reported to
\* Challonge before the state is set to FINISHED and before the standings
\* are read.
C29_ReportedFirst ==
    \A i \in 1..Len(calls) :
        calls[i] \in {"finished", "standings"} =>
            \E j \in 1..(i - 1) : calls[j] = "update"

====
